---- MODULE Spec2Model ----
(***************************************************************************)
(* Model of lib/ansible/modules/identity/ipa/ipa_dnsrecord.py: one         *)
(* invocation of the module is login -> ensure -> exit_json / fail_json,   *)
(* where ensure is find -> (add | mod | del | nothing) -> find.  Every     *)
(* remote call is one step; the FreeIPA server holds the record of one     *)
(* (zone_name, record_name) pair.                                          *)
(*                                                                         *)
(* Python dicts are sets of <<key, value>> pairs with distinct keys, the   *)
(* empty dict is {}.  An address value is a number: EmptyIp is the empty   *)
(* string '', 1..MaxIps are distinct non-empty address literals.  The      *)
(* server returns an address field as a list of values, modelled as a set. *)
(***************************************************************************)
EXTENDS Integers, Sequences, FiniteSets, TLC

MaxIps == 2

EmptyIp == 0
Ips == 1..MaxIps
RecordIps == {EmptyIp} \cup Ips
Procs == {1, 2}
SerialProcs == {1}

ZoneName == "example.com"
RecordName == "vm-001"
record_types == {"A", "AAAA"}
States == {"present", "absent"}

VARIABLES srv, params, pc, ipa_dnsrecord, changed, calls, outcome, srv0, prev,
          hist, fn

vars == <<srv, params, pc, ipa_dnsrecord, changed, calls, outcome, srv0, prev,
          hist, fn>>

(* ---- dicts ---- *)
Keys(d) == {kv[1] : kv \in d}
Has(d, k) == k \in Keys(d)
Get(d, k) == (CHOOSE kv \in d : kv[1] = k)[2]
Update(d, k, v) == {kv \in d : kv[1] # k} \cup {<<k, v>>}
Without(d, k) == {kv \in d : kv[1] # k}

(* ---- the module's pure functions ---- *)
module_dnsrecord(p) ==
  {<<"record_type", p.record_type>>, <<"record_ip", p.record_ip>>}

(* Mutant: the storage fields of the two record types swapped. *)
get_dnsrecord_dict_Swapped(details) ==
  IF Get(details, "record_type") = "A" /\ Get(details, "record_ip") # EmptyIp
    THEN {<<"aaaarecord", Get(details, "record_ip")>>}
  ELSE IF Get(details, "record_type") = "AAAA" /\ Get(details, "record_ip") # EmptyIp
    THEN {<<"arecord", Get(details, "record_ip")>>}
  ELSE {}

get_dnsrecord_dict(details) ==
  IF Get(details, "record_type") = "A" /\ Get(details, "record_ip") # EmptyIp
    THEN {<<"arecord", Get(details, "record_ip")>>}
  ELSE IF Get(details, "record_type") = "AAAA" /\ Get(details, "record_ip") # EmptyIp
    THEN {<<"aaaarecord", Get(details, "record_ip")>>}
  ELSE {}

(* IPAClient.get_diff: a wanted field is in the diff when the current      *)
(* record lacks it or holds another value; a scalar wanted value is        *)
(* compared with the server's list as the one-element list.                *)
get_diff(ipa_data, module_data) ==
  {kv \in module_data :
     \/ ~Has(ipa_data, kv[1])
     \/ Get(ipa_data, kv[1]) # {kv[2]}}

(* Mutant: the raw parameters are diffed, not their storage fields. *)
get_dnsrecord_diff_Raw(ipa_rec, module_rec) == get_diff(ipa_rec, module_rec)

get_dnsrecord_diff(ipa_rec, module_rec) ==
  get_diff(ipa_rec, get_dnsrecord_dict(module_rec))

(* ---- the requests the client builds ---- *)
FindItem == {<<"idnsname", RecordName>>}

(* Mutant: dnsrecord_add built with the storage field names. *)
AddItem_StorageConvention(details) ==
  Update(get_dnsrecord_dict(details), "idnsname", RecordName)

AddItem(details) ==
  IF Get(details, "record_type") = "A"
    THEN Update(FindItem, "a_part_ip_address", Get(details, "record_ip"))
  ELSE IF Get(details, "record_type") = "AAAA"
    THEN Update(FindItem, "aaaa_part_ip_address", Get(details, "record_ip"))
  ELSE FindItem

ModItem(details) == Update(get_dnsrecord_dict(details), "idnsname", RecordName)

(* Mutant: dnsrecord_del built with the field names of dnsrecord_add. *)
DelItem_AddConvention(details) == AddItem(details)

DelItem(details) == Update(get_dnsrecord_dict(details), "idnsname", RecordName)

(* Mutant: state=present modifies every existing record, diff or not. *)
EnsureDecision_NoDiffCheck(state, ipa_rec, module_rec) ==
  IF state = "present"
    THEN IF ipa_rec = {} THEN "dnsrecord_add" ELSE "dnsrecord_mod"
  ELSE IF ipa_rec # {} THEN "dnsrecord_del"
  ELSE "none"

(* Mutant: state=absent deletes without looking at what find returned. *)
EnsureDecision_DelUnseen(state, ipa_rec, module_rec) ==
  IF state = "present"
    THEN IF ipa_rec = {} THEN "dnsrecord_add"
         ELSE IF Cardinality(get_dnsrecord_diff(ipa_rec, module_rec)) > 0
           THEN "dnsrecord_mod"
         ELSE "none"
  ELSE "dnsrecord_del"

(* ---- the decision of ensure (lines 176-198) ---- *)
EnsureDecision(state, ipa_rec, module_rec) ==
  IF state = "present"
    THEN IF ipa_rec = {} THEN "dnsrecord_add"
         ELSE IF Cardinality(get_dnsrecord_diff(ipa_rec, module_rec)) > 0
           THEN "dnsrecord_mod"
         ELSE "none"
  ELSE IF ipa_rec # {} THEN "dnsrecord_del"
  ELSE "none"

(* ---- the FreeIPA server: one record of (ZoneName, RecordName) ---- *)
AddrFields == {"arecord", "aaaarecord"}

StorageField(k) ==
  IF k = "a_part_ip_address" THEN "arecord"
  ELSE IF k = "aaaa_part_ip_address" THEN "aaaarecord"
  ELSE k

(* The address field and value a request names, as <<storage field, value>> pairs. *)
ItemAddrs(item) ==
  {<<StorageField(kv[1]), kv[2]>> : kv \in {x \in item : StorageField(x[1]) \in AddrFields}}

SrvRecordOf(a, aaaa) ==
  {<<"idnsname", RecordName>>}
    \cup (IF a = {} THEN {} ELSE {<<"arecord", a>>})
    \cup (IF aaaa = {} THEN {} ELSE {<<"aaaarecord", aaaa>>})

SrvValues(s, k) == IF Has(s, k) THEN Get(s, k) ELSE {}

(* A record exists only while it holds an address value. *)
SrvNormal(s) ==
  IF SrvValues(s, "arecord") = {} /\ SrvValues(s, "aaaarecord") = {} THEN {} ELSE s

(* The records of well-formed addresses: what the server holds before the  *)
(* first invocation.                                                       *)
SrvRecords ==
  {SrvNormal(SrvRecordOf(a, aaaa)) : a \in SUBSET Ips, aaaa \in SUBSET Ips}

(* Every record a find can return: an address is stored as it was sent,    *)
(* the empty one included.                                                 *)
SrvStorable ==
  {SrvNormal(SrvRecordOf(a, aaaa)) : a \in SUBSET RecordIps, aaaa \in SUBSET RecordIps}

(* Whether the server carries the request out or answers with an error. *)
SrvAccepts(method, s, item) ==
  CASE method = "dnsrecord_find" -> TRUE
    [] method = "dnsrecord_add" ->
         /\ ItemAddrs(item) # {}
         /\ \A fv \in ItemAddrs(item) : fv[2] \notin SrvValues(s, fv[1])
    [] method = "dnsrecord_mod" ->
         /\ s # {}
         /\ ItemAddrs(item) # {}
    [] method = "dnsrecord_del" ->
         /\ s # {}
         /\ ItemAddrs(item) # {}
         /\ \A fv \in ItemAddrs(item) : fv[2] \in SrvValues(s, fv[1])

SrvSet(s, k, vals) ==
  SrvNormal(IF vals = {} THEN Without(s, k) ELSE Update(s, k, vals))

(* The record after an accepted request: add appends the value, mod        *)
(* replaces the field's values, del removes the named value.               *)
SrvApply(method, s, item) ==
  LET fv == CHOOSE x \in ItemAddrs(item) : TRUE
      base == IF s = {} THEN FindItem ELSE s
  IN CASE method = "dnsrecord_find" -> s
       [] method = "dnsrecord_add" -> SrvSet(base, fv[1], SrvValues(s, fv[1]) \cup {fv[2]})
       [] method = "dnsrecord_mod" -> SrvSet(s, fv[1], {fv[2]})
       [] method = "dnsrecord_del" -> SrvSet(s, fv[1], SrvValues(s, fv[1]) \ {fv[2]})

(* The result list of dnsrecord_find: the records of that name. *)
SrvFind(s) == IF s = {} THEN <<>> ELSE <<s>>

(* _post_json: the first element of the result list, {} for an empty list. *)
post_json_result(result) == IF Len(result) > 0 THEN result[1] ELSE {}

(* ---- one invocation ---- *)
ParamSets ==
  [state : States, record_type : record_types, record_ip : RecordIps,
   check_mode : BOOLEAN]

MutatingMethods == {"dnsrecord_add", "dnsrecord_mod", "dnsrecord_del"}

NoOutcome == [kind |-> "none"]
(* Mutant: exit_json reports changed whatever ensure returned. *)
exit_json_AlwaysChanged(c, r) == [kind |-> "exit_json", changed |-> TRUE, record |-> r]
exit_json(c, r) == [kind |-> "exit_json", changed |-> c, record |-> r]
fail_json(m) == [kind |-> "fail_json", msg |-> m]

Call(method, item, ok) == [method |-> method, item |-> item, ok |-> ok]

(* What a following invocation can be compared with: the inputs and the    *)
(* reported changed of the invocation before it, when that one succeeded.  *)
NoPrev == [kind |-> "none"]
PrevRun(p) ==
  IF outcome[p].kind = "exit_json"
    THEN [kind |-> "run", params |-> params[p], changed |-> outcome[p].changed]
  ELSE NoPrev

(* What is recorded of an invocation beside its calls: whether its         *)
(* mutating call was sent when the server no longer held the record its    *)
(* first find returned, and whether it ran while another invocation ran.   *)
NoHist == [stale |-> FALSE, overlap |-> FALSE]

(* The pure functions applied to one input: nothing applied yet. *)
FnInput(details, current, state) ==
  [details |-> details, current |-> current, state |-> state, done |-> {},
   dict |-> {}, diff |-> {}, decision |-> "none"]

FnIdle ==
  FnInput({<<"record_type", "A">>, <<"record_ip", EmptyIp>>}, {}, "present")

InitProcs ==
  /\ params = [p \in Procs |-> [state |-> "present", record_type |-> "A",
                                record_ip |-> 1, check_mode |-> FALSE]]
  /\ pc = [p \in Procs |-> "idle"]
  /\ ipa_dnsrecord = [p \in Procs |-> {}]
  /\ changed = [p \in Procs |-> FALSE]
  /\ calls = [p \in Procs |-> <<>>]
  /\ outcome = [p \in Procs |-> NoOutcome]
  /\ srv0 = [p \in Procs |-> {}]
  /\ prev = [p \in Procs |-> NoPrev]
  /\ hist = [p \in Procs |-> NoHist]

Init ==
  /\ srv \in SrvRecords
  /\ InitProcs
  /\ fn = FnIdle

(* main() up to the try block: the parameters are parsed, the client built. *)
Start(p) ==
  /\ pc[p] \in {"idle", "done", "failed"}
  /\ \E ps \in ParamSets : params' = [params EXCEPT ![p] = ps]
  /\ prev' = [prev EXCEPT ![p] = PrevRun(p)]
  /\ pc' = [pc EXCEPT ![p] = "login"]
  /\ ipa_dnsrecord' = [ipa_dnsrecord EXCEPT ![p] = {}]
  /\ changed' = [changed EXCEPT ![p] = FALSE]
  /\ calls' = [calls EXCEPT ![p] = <<>>]
  /\ outcome' = [outcome EXCEPT ![p] = NoOutcome]
  /\ srv0' = [srv0 EXCEPT ![p] = srv]
  /\ UNCHANGED srv

(* Mutant: the exception of a failed call is swallowed and ensure goes on. *)
Fails_Swallowed(p, method, item) ==
  /\ calls' = [calls EXCEPT ![p] = Append(@, Call(method, item, FALSE))]
  /\ pc' = [pc EXCEPT ![p] = "refind"]
  /\ UNCHANGED outcome

(* A failed remote call raises; main's except clause reports fail_json(msg). *)
Fails(p, method, item) ==
  /\ calls' = [calls EXCEPT ![p] = Append(@, Call(method, item, FALSE))]
  /\ pc' = [pc EXCEPT ![p] = "failed"]
  /\ outcome' = [outcome EXCEPT ![p] = fail_json(method)]

(* Mutant: ensure is called although login failed. *)
Login_IgnoresFailure(p) ==
  /\ pc[p] = "login"
  /\ \E ok \in BOOLEAN :
       /\ calls' = [calls EXCEPT ![p] = Append(@, Call("login", {}, ok))]
       /\ pc' = [pc EXCEPT ![p] = "find"]
       /\ UNCHANGED outcome
  /\ UNCHANGED <<srv, params, ipa_dnsrecord, changed, srv0, prev>>

Login(p) ==
  /\ pc[p] = "login"
  /\ \E ok \in BOOLEAN :
       IF ok
         THEN /\ calls' = [calls EXCEPT ![p] = Append(@, Call("login", {}, TRUE))]
              /\ pc' = [pc EXCEPT ![p] = "find"]
              /\ UNCHANGED outcome
         ELSE Fails(p, "login", {})
  /\ UNCHANGED <<srv, params, ipa_dnsrecord, changed, srv0, prev>>

(* Mutant: the result of the first find is not kept. *)
FindFirst_ResultDropped(p) ==
  /\ pc[p] = "find"
  /\ \E ok \in BOOLEAN :
       IF ok
         THEN /\ calls' = [calls EXCEPT ![p] = Append(@, Call("dnsrecord_find", FindItem, TRUE))]
              /\ pc' = [pc EXCEPT ![p] = "decide"]
              /\ UNCHANGED <<outcome, ipa_dnsrecord>>
         ELSE /\ Fails(p, "dnsrecord_find", FindItem)
              /\ UNCHANGED ipa_dnsrecord
  /\ UNCHANGED <<srv, params, changed, srv0, prev>>

(* ensure, line 172: the first dnsrecord_find. *)
FindFirst(p) ==
  /\ pc[p] = "find"
  /\ \E ok \in BOOLEAN :
       IF ok
         THEN /\ calls' = [calls EXCEPT ![p] = Append(@, Call("dnsrecord_find", FindItem, TRUE))]
              /\ ipa_dnsrecord' = [ipa_dnsrecord EXCEPT ![p] = post_json_result(SrvFind(srv))]
              /\ pc' = [pc EXCEPT ![p] = "decide"]
              /\ UNCHANGED outcome
         ELSE /\ Fails(p, "dnsrecord_find", FindItem)
              /\ UNCHANGED ipa_dnsrecord
  /\ UNCHANGED <<srv, params, changed, srv0, prev>>

Decision(p) ==
  EnsureDecision(params[p].state, ipa_dnsrecord[p], module_dnsrecord(params[p]))

(* Mutant: the mutating call is sent in check mode too. *)
Mutate_IgnoresCheckMode(p, method, item) ==
  /\ pc[p] = "decide"
  /\ Decision(p) = method
  /\ changed' = [changed EXCEPT ![p] = TRUE]
  /\ \E ok \in BOOLEAN :
       IF ok /\ SrvAccepts(method, srv, item)
         THEN /\ srv' = SrvApply(method, srv, item)
              /\ calls' = [calls EXCEPT ![p] = Append(@, Call(method, item, TRUE))]
              /\ pc' = [pc EXCEPT ![p] = "refind"]
              /\ UNCHANGED outcome
         ELSE /\ Fails(p, method, item)
              /\ UNCHANGED srv
  /\ UNCHANGED <<params, ipa_dnsrecord, srv0, prev>>

(* Mutant: after a mutating call ensure starts over from its first find. *)
Mutate_StartsOver(p, method, item) ==
  /\ pc[p] = "decide"
  /\ Decision(p) = method
  /\ ~params[p].check_mode
  /\ changed' = [changed EXCEPT ![p] = TRUE]
  /\ \E ok \in BOOLEAN :
       IF ok /\ SrvAccepts(method, srv, item)
         THEN /\ srv' = SrvApply(method, srv, item)
              /\ calls' = [calls EXCEPT ![p] = Append(@, Call(method, item, TRUE))]
              /\ pc' = [pc EXCEPT ![p] = "find"]
              /\ UNCHANGED outcome
         ELSE /\ Fails(p, method, item)
              /\ UNCHANGED srv
  /\ UNCHANGED <<params, ipa_dnsrecord, srv0, prev>>

(* A mutating call of ensure: changed is set before the call is made. *)
Mutate(p, method, item) ==
  /\ pc[p] = "decide"
  /\ Decision(p) = method
  /\ ~params[p].check_mode
  /\ changed' = [changed EXCEPT ![p] = TRUE]
  /\ \E ok \in BOOLEAN :
       IF ok /\ SrvAccepts(method, srv, item)
         THEN /\ srv' = SrvApply(method, srv, item)
              /\ calls' = [calls EXCEPT ![p] = Append(@, Call(method, item, TRUE))]
              /\ pc' = [pc EXCEPT ![p] = "refind"]
              /\ UNCHANGED outcome
         ELSE /\ Fails(p, method, item)
              /\ UNCHANGED srv
  /\ UNCHANGED <<params, ipa_dnsrecord, srv0, prev>>

EnsureAdd(p) == Mutate(p, "dnsrecord_add", AddItem(module_dnsrecord(params[p])))
EnsureMod(p) == Mutate(p, "dnsrecord_mod", ModItem(module_dnsrecord(params[p])))
EnsureDel(p) == Mutate(p, "dnsrecord_del", DelItem(module_dnsrecord(params[p])))

(* Mutant: changed is set only where the mutating call is made. *)
EnsureSkip_ChangedOnlyWhenSent(p) ==
  /\ pc[p] = "decide"
  /\ Decision(p) = "none" \/ params[p].check_mode
  /\ changed' = [changed EXCEPT ![p] = FALSE]
  /\ pc' = [pc EXCEPT ![p] = "refind"]
  /\ UNCHANGED <<srv, params, ipa_dnsrecord, calls, outcome, srv0, prev>>

(* ensure with nothing to send: no change needed, or check mode. *)
EnsureSkip(p) ==
  /\ pc[p] = "decide"
  /\ Decision(p) = "none" \/ params[p].check_mode
  /\ changed' = [changed EXCEPT ![p] = Decision(p) # "none"]
  /\ pc' = [pc EXCEPT ![p] = "refind"]
  /\ UNCHANGED <<srv, params, ipa_dnsrecord, calls, outcome, srv0, prev>>

(* Mutant: the record of the first find is returned after the final find. *)
FindFinal_ReturnsFirstFind(p) ==
  /\ pc[p] = "refind"
  /\ \E ok \in BOOLEAN :
       IF ok
         THEN /\ calls' = [calls EXCEPT ![p] = Append(@, Call("dnsrecord_find", FindItem, TRUE))]
              /\ outcome' = [outcome EXCEPT ![p] = exit_json(changed[p], ipa_dnsrecord[p])]
              /\ pc' = [pc EXCEPT ![p] = "done"]
         ELSE Fails(p, "dnsrecord_find", FindItem)
  /\ UNCHANGED <<srv, params, ipa_dnsrecord, changed, srv0, prev>>

(* ensure, line 200, and main, line 231: the final find and exit_json. *)
FindFinal(p) ==
  /\ pc[p] = "refind"
  /\ \E ok \in BOOLEAN :
       IF ok
         THEN /\ calls' = [calls EXCEPT ![p] = Append(@, Call("dnsrecord_find", FindItem, TRUE))]
              /\ outcome' = [outcome EXCEPT ![p] = exit_json(changed[p], post_json_result(SrvFind(srv)))]
              /\ pc' = [pc EXCEPT ![p] = "done"]
         ELSE Fails(p, "dnsrecord_find", FindItem)
  /\ UNCHANGED <<srv, params, ipa_dnsrecord, changed, srv0, prev>>

Active(p) == pc[p] \in {"login", "find", "decide", "refind"}

HistStart(p) ==
  hist' = [q \in Procs |->
             IF q = p
               THEN [stale |-> FALSE, overlap |-> \E r \in Procs \ {p} : Active(r)]
             ELSE IF Active(q) THEN [hist[q] EXCEPT !.overlap = TRUE]
             ELSE hist[q]]

HistMutate(p) ==
  hist' = [hist EXCEPT ![p].stale = (srv # ipa_dnsrecord[p])]

(* The steps of invocation p; it may start when it is at one of startable. *)
StepFrom(p, startable) ==
  \/ pc[p] \in startable /\ Start(p) /\ HistStart(p) /\ UNCHANGED fn
  \/ Login(p) /\ UNCHANGED <<hist, fn>>
  \/ FindFirst(p) /\ UNCHANGED <<hist, fn>>
  \/ EnsureAdd(p) /\ HistMutate(p) /\ UNCHANGED fn
  \/ EnsureMod(p) /\ HistMutate(p) /\ UNCHANGED fn
  \/ EnsureDel(p) /\ HistMutate(p) /\ UNCHANGED fn
  \/ EnsureSkip(p) /\ UNCHANGED <<hist, fn>>
  \/ FindFinal(p) /\ UNCHANGED <<hist, fn>>

Step(p) == StepFrom(p, {"idle", "done", "failed"})

(* One invocation after another, as one process per playbook task. *)
Next == \E p \in SerialProcs : Step(p)

Spec == Init /\ [][Next]_vars

(* Two invocations against the same record, each run once, interleaved at  *)
(* their remote calls: nothing in the module locks the record.             *)
StepOnce(p) == StepFrom(p, {"idle"})

NextConc == \E p \in Procs : StepOnce(p)

SpecConc == Init /\ [][NextConc]_vars

(* ---- the pure functions on their own ---- *)
OtherTypes == {"CNAME"}

DetailSets ==
  {{<<"record_type", t>>, <<"record_ip", ip>>} :
     t \in record_types \cup OtherTypes, ip \in RecordIps}

InitPure ==
  /\ srv = {}
  /\ InitProcs
  /\ \E d \in DetailSets, c \in SrvStorable, st \in States : fn = FnInput(d, c, st)

ApplyDict ==
  /\ "dict" \notin fn.done
  /\ fn' = [fn EXCEPT !.dict = get_dnsrecord_dict(fn.details), !.done = @ \cup {"dict"}]

ApplyDiff ==
  /\ "diff" \notin fn.done
  /\ fn' = [fn EXCEPT !.diff = get_dnsrecord_diff(fn.current, fn.details),
                      !.done = @ \cup {"diff"}]

ApplyDecision ==
  /\ "decision" \notin fn.done
  /\ fn' = [fn EXCEPT !.decision = EnsureDecision(fn.state, fn.current, fn.details),
                      !.done = @ \cup {"decision"}]

NextPure ==
  \/ ApplyDict /\ UNCHANGED <<srv, params, pc, ipa_dnsrecord, changed, calls, outcome, srv0, prev, hist>>
  \/ ApplyDiff /\ UNCHANGED <<srv, params, pc, ipa_dnsrecord, changed, calls, outcome, srv0, prev, hist>>
  \/ ApplyDecision /\ UNCHANGED <<srv, params, pc, ipa_dnsrecord, changed, calls, outcome, srv0, prev, hist>>

SpecPure == InitPure /\ [][NextPure]_vars

(* ======================= properties ======================= *)
Methods(p) == [i \in 1..Len(calls[p]) |-> calls[p][i].method]
MutatingCalls(p) == {i \in 1..Len(calls[p]) : calls[p][i].method \in MutatingMethods}
MutatingSeq(p) == SelectSeq(Methods(p), LAMBDA m : m \in MutatingMethods)
Succeeded(p) == outcome[p].kind = "exit_json"
Failed(p) == outcome[p].kind = "fail_json"
AllCallsOk(p) == \A i \in 1..Len(calls[p]) : calls[p][i].ok
(* The invocation is past the branch of ensure that may send a mutating call. *)
PastDecision(p) ==
  \/ pc[p] \in {"refind", "done"}
  \/ pc[p] = "failed" /\ Len(calls[p]) >= 3
(* The storage field of the desired record type. *)
WantedField(ps) == IF ps.record_type = "A" THEN "arecord" ELSE "aaaarecord"
(* The classes of the transition table, on the record a find returned: the *)
(* diff is non-empty when a non-empty wanted address is not the one value  *)
(* the record holds under the wanted field.                                *)
Absent(r) == r = {}
PresentDiffering(r, ps) ==
  r # {} /\ ps.record_ip # EmptyIp /\ SrvValues(r, WantedField(ps)) # {ps.record_ip}
PresentMatching(r, ps) == r # {} /\ ~PresentDiffering(r, ps)
(* The invocation directly follows a successful one with the same inputs. *)
Rerun(p) == prev[p].kind = "run" /\ prev[p].params = params[p]

(* C1: state=present is idempotent. A successful run without check mode    *)
(* that follows a successful run with the same inputs reports              *)
(* changed=false, sends no mutating call and leaves the server record as   *)
(* the first run left it; a successful run reports changed=true whenever   *)
(* it started from Absent or Present-Differing.                            *)
C1_PresentIdempotent ==
  \A p \in Procs :
    (params[p].state = "present" /\ ~params[p].check_mode /\ Succeeded(p)) =>
      /\ Rerun(p) =>
           /\ outcome[p].changed = FALSE
           /\ MutatingCalls(p) = {}
           /\ srv = srv0[p]
      /\ (Absent(srv0[p]) \/ PresentDiffering(srv0[p], params[p])) =>
           outcome[p].changed = TRUE

C1_Witness ==
  \E p \in Procs :
    /\ params[p].state = "present" /\ ~params[p].check_mode /\ Succeeded(p)
    /\ Rerun(p) /\ prev[p].changed = TRUE
    /\ outcome[p].changed = FALSE

(* C3: with check_mode set no dnsrecord_add, dnsrecord_mod or              *)
(* dnsrecord_del is sent and the server record stays what it was when the  *)
(* invocation started.                                                     *)
C3_DryRunNoMutation ==
  \A p \in Procs :
    (params[p].check_mode /\ pc[p] # "idle") =>
      /\ MutatingCalls(p) = {}
      /\ srv = srv0[p]

C3_Witness ==
  \E p \in Procs :
    /\ params[p].check_mode /\ Succeeded(p)
    /\ outcome[p].changed = TRUE
    /\ srv = srv0[p] /\ srv # {}

(* C4: check mode decides as a real run does. A successful run without     *)
(* check mode that follows a successful check-mode run with otherwise the  *)
(* same inputs, so from the same server record, reports the same changed.  *)
AfterDryRun(p) ==
  /\ prev[p].kind = "run"
  /\ prev[p].params = [params[p] EXCEPT !.check_mode = TRUE]
  /\ ~params[p].check_mode
  /\ Succeeded(p)

C4_DryRunSameChanged ==
  \A p \in Procs : AfterDryRun(p) => outcome[p].changed = prev[p].changed

C4_Witness ==
  \E p \in Procs :
    /\ AfterDryRun(p)
    /\ prev[p].changed = TRUE /\ outcome[p].changed = TRUE
    /\ MutatingCalls(p) # {}

(* C5: the transition table for state=present without check mode. First   *)
(* find NotFound: exactly dnsrecord_add; diff empty: no mutating call;     *)
(* diff non-empty: exactly dnsrecord_mod; changed is true in the first and *)
(* third case only; dnsrecord_del is never sent.                           *)
C5_PresentTable ==
  \A p \in Procs :
    (params[p].state = "present" /\ ~params[p].check_mode) =>
      /\ \A i \in 1..Len(calls[p]) : calls[p][i].method # "dnsrecord_del"
      /\ PastDecision(p) =>
           /\ Absent(ipa_dnsrecord[p]) => MutatingSeq(p) = <<"dnsrecord_add">>
           /\ PresentMatching(ipa_dnsrecord[p], params[p]) => MutatingSeq(p) = <<>>
           /\ PresentDiffering(ipa_dnsrecord[p], params[p]) =>
                MutatingSeq(p) = <<"dnsrecord_mod">>
      /\ Succeeded(p) =>
           outcome[p].changed = ~PresentMatching(ipa_dnsrecord[p], params[p])

C5_Witness ==
  \E p \in Procs :
    /\ params[p].state = "present" /\ ~params[p].check_mode /\ Succeeded(p)
    /\ PresentDiffering(ipa_dnsrecord[p], params[p])
    /\ MutatingSeq(p) = <<"dnsrecord_mod">>
    /\ outcome[p].changed = TRUE

(* C6: the transition table for state=absent without check mode. First     *)
(* find NotFound: no mutating call, changed=false; any record: exactly     *)
(* dnsrecord_del, changed=true; add and mod are never sent.                *)
C6_AbsentTable ==
  \A p \in Procs :
    (params[p].state = "absent" /\ ~params[p].check_mode) =>
      /\ \A i \in 1..Len(calls[p]) :
           calls[p][i].method \notin {"dnsrecord_add", "dnsrecord_mod"}
      /\ PastDecision(p) =>
           /\ Absent(ipa_dnsrecord[p]) => MutatingSeq(p) = <<>>
           /\ ~Absent(ipa_dnsrecord[p]) => MutatingSeq(p) = <<"dnsrecord_del">>
      /\ Succeeded(p) => outcome[p].changed = ~Absent(ipa_dnsrecord[p])

C6_Witness ==
  \E p \in Procs :
    /\ params[p].state = "absent" /\ ~params[p].check_mode /\ Succeeded(p)
    /\ PresentMatching(ipa_dnsrecord[p], params[p])
    /\ MutatingSeq(p) = <<"dnsrecord_del">>
    /\ outcome[p].changed = TRUE

(* The dnsrecord_del requests of an invocation. *)
DelCalls(p) == {i \in 1..Len(calls[p]) : calls[p][i].method = "dnsrecord_del"}
AbsentRun(p) == params[p].state = "absent" /\ ~params[p].check_mode
(* The record that holds the desired address and nothing else. *)
OnlyWanted(ps) == {<<"idnsname", RecordName>>, <<WantedField(ps), {ps.record_ip}>>}

(* C2 as stated: state=absent from any existing record sends dnsrecord_del *)
(* carrying the desired record's storage field; once the call succeeded    *)
(* the record is NotFound; a following run with the same inputs reports    *)
(* changed=false and sends no mutating call.                               *)
C2_AsStated ==
  \A p \in Procs :
    AbsentRun(p) =>
      /\ (srv0[p] # {} /\ PastDecision(p)) =>
           /\ MutatingSeq(p) = <<"dnsrecord_del">>
           /\ \A i \in DelCalls(p) :
                <<WantedField(params[p]), params[p].record_ip>> \in calls[p][i].item
           /\ (\A i \in DelCalls(p) : calls[p][i].ok) => srv = {}
      /\ (Rerun(p) /\ prev[p].changed /\ PastDecision(p)) =>
           /\ MutatingCalls(p) = {}
           /\ Succeeded(p) => outcome[p].changed = FALSE

(* C2, amended: state=absent from any existing record sends dnsrecord_del  *)
(* with idnsname and, when record_ip is non-empty, the storage field       *)
(* holding record_ip; once the call succeeded the record no longer holds   *)
(* record_ip under that field and is NotFound exactly when it held no      *)
(* other address value; a following run with the same inputs that finds    *)
(* NotFound reports changed=false and sends no mutating call.              *)
C2_AbsentConverges ==
  \A p \in Procs :
    AbsentRun(p) =>
      /\ (srv0[p] # {} /\ PastDecision(p)) =>
           /\ MutatingSeq(p) = <<"dnsrecord_del">>
           /\ \A i \in DelCalls(p) :
                calls[p][i].item =
                  {<<"idnsname", RecordName>>} \cup
                  (IF params[p].record_ip # EmptyIp
                     THEN {<<WantedField(params[p]), params[p].record_ip>>}
                     ELSE {})
           /\ (\A i \in DelCalls(p) : calls[p][i].ok) =>
                /\ params[p].record_ip \notin SrvValues(srv, WantedField(params[p]))
                /\ srv = {} <=> srv0[p] = OnlyWanted(params[p])
      /\ (Rerun(p) /\ prev[p].changed /\ srv0[p] = {} /\ PastDecision(p)) =>
           /\ MutatingCalls(p) = {}
           /\ Succeeded(p) => outcome[p].changed = FALSE

C2_Witness ==
  \E p \in Procs :
    /\ AbsentRun(p) /\ Succeeded(p)
    /\ Rerun(p) /\ prev[p].changed /\ srv0[p] = {}
    /\ outcome[p].changed = FALSE /\ MutatingCalls(p) = {}

(* C7 as stated: changed=true is reported only if a mutating call was sent *)
(* in the invocation and returned successfully, check mode or not.         *)
MutatedOk(p) == \E i \in MutatingCalls(p) : calls[p][i].ok

C7_AsStated ==
  \A p \in Procs :
    (Succeeded(p) /\ outcome[p].changed) => MutatedOk(p)

(* C7, amended: without check mode, changed=true is reported only if a     *)
(* mutating call was sent in the invocation and returned successfully;     *)
(* with check mode, changed=true is reported with no mutating call sent.   *)
C7_ChangedMeansMutated ==
  \A p \in Procs :
    (Succeeded(p) /\ outcome[p].changed) =>
      IF params[p].check_mode THEN MutatingCalls(p) = {} ELSE MutatedOk(p)

C7_Witness ==
  \E p \in Procs :
    /\ Succeeded(p) /\ outcome[p].changed /\ ~params[p].check_mode
    /\ MutatedOk(p)
    /\ srv # srv0[p]

(* C8: a failure is terminal. The failed call is the last call of the      *)
(* invocation, the outcome of an invocation with a failed call is          *)
(* fail_json with a message and neither changed nor record, and exit_json  *)
(* with changed and record is produced only when every call succeeded.     *)
C8_TerminalFailure ==
  \A p \in Procs :
    /\ \A i \in 1..Len(calls[p]) : ~calls[p][i].ok => i = Len(calls[p])
    /\ ~AllCallsOk(p) =>
         /\ pc[p] = "failed"
         /\ Failed(p)
         /\ DOMAIN outcome[p] = {"kind", "msg"}
    /\ Succeeded(p) =>
         /\ AllCallsOk(p)
         /\ DOMAIN outcome[p] = {"kind", "changed", "record"}
    /\ Failed(p) => ~AllCallsOk(p)

C8_Witness ==
  \E p \in Procs :
    /\ Failed(p)
    /\ Len(calls[p]) = 3
    /\ calls[p][3].method \in MutatingMethods /\ ~calls[p][3].ok
    /\ changed[p] = TRUE

(* C9: authentication precedes every record operation. A dnsrecord_* call  *)
(* is sent only after a login of the same invocation that succeeded; when  *)
(* login fails no record operation is sent.                                *)
RecordMethods == {"dnsrecord_find"} \cup MutatingMethods

C9_LoginFirst ==
  \A p \in Procs :
    /\ \A i \in 1..Len(calls[p]) :
         calls[p][i].method \in RecordMethods =>
           \E j \in 1..(i - 1) : calls[p][j].method = "login" /\ calls[p][j].ok
    /\ (\E j \in 1..Len(calls[p]) : calls[p][j].method = "login" /\ ~calls[p][j].ok) =>
         \A i \in 1..Len(calls[p]) : calls[p][i].method \notin RecordMethods

C9_Witness ==
  \E p \in Procs :
    /\ Len(calls[p]) = 4
    /\ calls[p][1].method = "login" /\ calls[p][1].ok
    /\ calls[p][3].method = "dnsrecord_del"

(* C10: the calls of an invocation are a prefix of login, dnsrecord_find,  *)
(* at most one mutating call, dnsrecord_find: never more than four calls,  *)
(* never two mutating calls, no mutating call before the first find        *)
(* returned.                                                               *)
IsPrefix(a, b) == Len(a) <= Len(b) /\ \A i \in 1..Len(a) : a[i] = b[i]

C10_CallChain ==
  \A p \in Procs :
    /\ \/ IsPrefix(Methods(p), <<"login", "dnsrecord_find", "dnsrecord_find">>)
       \/ \E m \in MutatingMethods :
            IsPrefix(Methods(p), <<"login", "dnsrecord_find", m, "dnsrecord_find">>)
    /\ Len(calls[p]) <= 4
    /\ Cardinality(MutatingCalls(p)) <= 1
    /\ \A i \in MutatingCalls(p) :
         \E j \in 1..(i - 1) : calls[p][j].method = "dnsrecord_find" /\ calls[p][j].ok

C10_Witness ==
  \E p \in Procs :
    /\ pc[p] = "done"
    /\ Methods(p) = <<"login", "dnsrecord_find", "dnsrecord_add", "dnsrecord_find">>

(* The add-time field of the desired record type. *)
PartField(ps) ==
  IF ps.record_type = "A" THEN "a_part_ip_address" ELSE "aaaa_part_ip_address"
CallsOf(p, method) == {i \in 1..Len(calls[p]) : calls[p][i].method = method}
NameOnly == {<<"idnsname", RecordName>>}

(* C11 as stated: every dnsrecord_add carries idnsname and exactly the     *)
(* add-time field of the record type holding record_ip; every              *)
(* dnsrecord_mod and dnsrecord_del carries idnsname and exactly the        *)
(* storage field of the record type holding record_ip.                     *)
C11_AsStated ==
  \A p \in Procs :
    /\ \A i \in CallsOf(p, "dnsrecord_add") :
         calls[p][i].item = NameOnly \cup {<<PartField(params[p]), params[p].record_ip>>}
    /\ \A i \in CallsOf(p, "dnsrecord_mod") \cup CallsOf(p, "dnsrecord_del") :
         calls[p][i].item = NameOnly \cup {<<WantedField(params[p]), params[p].record_ip>>}

(* C11, amended: as stated for dnsrecord_add and dnsrecord_mod and for a   *)
(* dnsrecord_del with a non-empty record_ip; a dnsrecord_del with an       *)
(* empty record_ip carries idnsname and no address field; a dnsrecord_mod  *)
(* is never sent with an empty record_ip.                                  *)
C11_FieldConventions ==
  \A p \in Procs :
    /\ \A i \in CallsOf(p, "dnsrecord_add") :
         calls[p][i].item = NameOnly \cup {<<PartField(params[p]), params[p].record_ip>>}
    /\ \A i \in CallsOf(p, "dnsrecord_mod") :
         /\ params[p].record_ip # EmptyIp
         /\ calls[p][i].item =
              NameOnly \cup {<<WantedField(params[p]), params[p].record_ip>>}
    /\ \A i \in CallsOf(p, "dnsrecord_del") :
         calls[p][i].item =
           IF params[p].record_ip # EmptyIp
             THEN NameOnly \cup {<<WantedField(params[p]), params[p].record_ip>>}
             ELSE NameOnly

C11_Witness ==
  \E p \in Procs :
    /\ params[p].record_type = "AAAA" /\ params[p].record_ip # EmptyIp
    /\ Succeeded(p)
    /\ \E i \in CallsOf(p, "dnsrecord_add") :
         calls[p][i].item =
           {<<"idnsname", RecordName>>, <<"aaaa_part_ip_address", params[p].record_ip>>}

(* The final find of a successful invocation comes after its mutating call. *)
FinalFindLast(p) ==
  /\ Len(calls[p]) >= 3
  /\ calls[p][Len(calls[p])].method = "dnsrecord_find"
  /\ \A i \in MutatingCalls(p) : i < Len(calls[p])

(* C12 as stated: the record of a successful run without check mode is the *)
(* response of a find sent after the mutating call, equals the server's    *)
(* record when ensure returns, is NotFound after a successful delete and   *)
(* the stored record after add or modify, and is not the first find's      *)
(* result when a mutating call was made.                                   *)
C12_AsStated ==
  \A p \in Procs :
    (Succeeded(p) /\ ~params[p].check_mode) =>
      /\ FinalFindLast(p)
      /\ outcome[p].record = srv
      /\ CallsOf(p, "dnsrecord_del") # {} => outcome[p].record = {}
      /\ CallsOf(p, "dnsrecord_add") \cup CallsOf(p, "dnsrecord_mod") # {} =>
           /\ outcome[p].record # {}
           /\ SrvValues(outcome[p].record, WantedField(params[p])) = {params[p].record_ip}
      /\ MutatingCalls(p) # {} => outcome[p].record # ipa_dnsrecord[p]

(* C12, amended: as stated, but after a successful delete the record is    *)
(* NotFound only when the deleted address was the record's only address    *)
(* value; otherwise it is the record that remains, without that address.   *)
C12_FinalRecordAuthoritative ==
  \A p \in Procs :
    (Succeeded(p) /\ ~params[p].check_mode) =>
      /\ FinalFindLast(p)
      /\ outcome[p].record = srv
      /\ CallsOf(p, "dnsrecord_del") # {} =>
           /\ outcome[p].record = {} <=> ipa_dnsrecord[p] = OnlyWanted(params[p])
           /\ params[p].record_ip \notin
                SrvValues(outcome[p].record, WantedField(params[p]))
      /\ CallsOf(p, "dnsrecord_add") \cup CallsOf(p, "dnsrecord_mod") # {} =>
           /\ outcome[p].record # {}
           /\ SrvValues(outcome[p].record, WantedField(params[p])) = {params[p].record_ip}
      /\ MutatingCalls(p) # {} => outcome[p].record # ipa_dnsrecord[p]

C12_Witness ==
  \E p \in Procs :
    /\ Succeeded(p) /\ ~params[p].check_mode
    /\ CallsOf(p, "dnsrecord_del") # {}
    /\ ipa_dnsrecord[p] # {}
    /\ outcome[p].record = {} /\ srv = {}

(* C15: in check mode the record returned is the result of the find at the *)
(* start of the invocation, the record the server held before it.          *)
C15_DryRunRecord ==
  \A p \in Procs :
    (Succeeded(p) /\ params[p].check_mode) =>
      /\ outcome[p].record = ipa_dnsrecord[p]
      /\ outcome[p].record = srv0[p]

C15_Witness ==
  \E p \in Procs :
    /\ Succeeded(p) /\ params[p].check_mode
    /\ params[p].state = "absent"
    /\ outcome[p].changed = TRUE
    /\ outcome[p].record # {} /\ outcome[p].record = ipa_dnsrecord[p]

(* A successful run of state=present without check mode. *)
PresentDone(p) ==
  params[p].state = "present" /\ ~params[p].check_mode /\ Succeeded(p)
Holds(r, ps) == r # {} /\ SrvValues(r, WantedField(ps)) = {ps.record_ip}

(* C17 as stated: after a successful state=present run without check mode  *)
(* the record returned exists and holds record_ip under the storage field  *)
(* of record_type, for every record_ip.                                    *)
C17_AsStated ==
  \A p \in Procs : PresentDone(p) => Holds(outcome[p].record, params[p])

(* C17, amended: that holds for every non-empty record_ip, and for an      *)
(* empty record_ip when the first find returned NotFound (the address is   *)
(* passed through to dnsrecord_add as it is); with an empty record_ip and  *)
(* an existing record the run sends no mutating call, reports              *)
(* changed=false and returns that record as it was.                        *)
C17_PresentPostcondition ==
  \A p \in Procs :
    PresentDone(p) =>
      IF params[p].record_ip # EmptyIp \/ srv0[p] = {}
        THEN Holds(outcome[p].record, params[p])
        ELSE /\ outcome[p].record = srv0[p]
             /\ MutatingCalls(p) = {}
             /\ outcome[p].changed = FALSE

(* A run with a non-empty record_ip that follows a run which added the     *)
(* empty address to an absent record, and replaces that address.           *)
C17_Witness ==
  \E p \in Procs :
    /\ PresentDone(p)
    /\ params[p].record_ip # EmptyIp
    /\ prev[p].kind = "run" /\ prev[p].changed /\ ~prev[p].params.check_mode
    /\ prev[p].params.state = "present" /\ prev[p].params.record_ip = EmptyIp
    /\ prev[p].params.record_type = params[p].record_type
    /\ SrvValues(srv0[p], WantedField(params[p])) = {EmptyIp}
    /\ MutatingSeq(p) = <<"dnsrecord_mod">>
    /\ Holds(outcome[p].record, params[p])

(* ---- the pure functions ---- *)
FnType == Get(fn.details, "record_type")
FnIp == Get(fn.details, "record_ip")
FnField == IF FnType = "A" THEN "arecord" ELSE "aaaarecord"
FnOtherField == IF FnType = "A" THEN "aaaarecord" ELSE "arecord"
(* The storage fields as the claims state them: the field of the record    *)
(* type holding record_ip, whatever record_ip is.                          *)
StatedFields ==
  IF FnType \in record_types THEN {<<FnField, FnIp>>} ELSE {}
(* The storage fields with the test of record_ip: none when it is empty.   *)
GuardedFields ==
  IF FnType \in record_types /\ FnIp # EmptyIp THEN {<<FnField, FnIp>>} ELSE {}
(* The fields of wanted that the current record lacks or holds otherwise.  *)
DiffOf(wanted) ==
  {kv \in wanted : ~Has(fn.current, kv[1]) \/ Get(fn.current, kv[1]) # {kv[2]}}
OnlyOtherType ==
  fn.current # {} /\ ~Has(fn.current, FnField) /\ Has(fn.current, FnOtherField)
WantedPlusOther ==
  /\ Has(fn.current, FnField) /\ Get(fn.current, FnField) = {FnIp}
  /\ Has(fn.current, FnOtherField)
Classified ==
  "decision" \in fn.done /\ fn.state = "present" /\ FnType \in record_types

(* C13 as stated: with wanted the storage fields of the desired record,    *)
(* the diff holds a field of wanted exactly when the current record lacks  *)
(* it or holds another value, and no field outside wanted; so a record     *)
(* holding only an address of the other type is Present-Differing          *)
(* (dnsrecord_mod) and one holding the desired value plus an address of    *)
(* the other type is Present-Matching (no call).                           *)
C13_AsStated ==
  /\ "diff" \in fn.done => fn.diff = DiffOf(StatedFields)
  /\ (Classified /\ OnlyOtherType) => fn.decision = "dnsrecord_mod"
  /\ (Classified /\ WantedPlusOther) => fn.decision = "none"

(* C13, amended: that holds with wanted as get_dnsrecord_dict builds it,   *)
(* which is empty for an empty record_ip; the record holding only an       *)
(* address of the other type is Present-Differing for a non-empty          *)
(* record_ip, and for an empty record_ip every existing record is          *)
(* Present-Matching.                                                       *)
C13_DiffAsymmetric ==
  /\ "diff" \in fn.done =>
       /\ fn.diff = DiffOf(GuardedFields)
       /\ Keys(fn.diff) \subseteq Keys(GuardedFields)
  /\ (Classified /\ OnlyOtherType) =>
       fn.decision = IF FnIp # EmptyIp THEN "dnsrecord_mod" ELSE "none"
  /\ (Classified /\ WantedPlusOther) => fn.decision = "none"
  /\ (Classified /\ FnIp = EmptyIp /\ fn.current # {}) => fn.decision = "none"

C13_Witness ==
  /\ fn.done = {"dict", "diff", "decision"}
  /\ Classified /\ OnlyOtherType /\ FnIp # EmptyIp
  /\ fn.diff = {<<FnField, FnIp>>}
  /\ fn.decision = "dnsrecord_mod"

(* C14 as stated: get_dnsrecord_dict returns exactly {arecord: record_ip}  *)
(* for type A, {aaaarecord: record_ip} for type AAAA, for every record_ip, *)
(* empty or not, the empty mapping for another type, never two fields.     *)
C14_AsStated ==
  "dict" \in fn.done =>
    /\ fn.dict = StatedFields
    /\ Cardinality(fn.dict) <= 1

(* C14, amended: that holds for every non-empty record_ip; for an empty    *)
(* record_ip the result is the empty mapping, whatever the record type.    *)
C14_StorageFields ==
  "dict" \in fn.done =>
    /\ fn.dict = GuardedFields
    /\ Cardinality(fn.dict) <= 1
    /\ FnIp = EmptyIp => fn.dict = {}
    /\ (FnIp # EmptyIp /\ FnType = "A") => fn.dict = {<<"arecord", FnIp>>}
    /\ (FnIp # EmptyIp /\ FnType = "AAAA") => fn.dict = {<<"aaaarecord", FnIp>>}

C14_Witness ==
  /\ "dict" \in fn.done
  /\ FnType = "AAAA" /\ FnIp # EmptyIp
  /\ fn.dict = {<<"aaaarecord", FnIp>>}

(* ---- two invocations at once ---- *)
SentMutating(p) == MutatingCalls(p) # {}
(* Both invocations found no record and the dnsrecord_add of both went     *)
(* through.                                                                *)
BothAddOnAbsent ==
  \A p \in Procs :
    /\ Len(calls[p]) >= 3
    /\ calls[p][2].ok /\ ipa_dnsrecord[p] = {}
    /\ calls[p][3].method = "dnsrecord_add" /\ calls[p][3].ok
(* Both invocations found the same record, both modified it and report     *)
(* changed, and the server holds what only one of them wanted.             *)
LostUpdate ==
  /\ \A p \in Procs :
       /\ Succeeded(p) /\ outcome[p].changed
       /\ calls[p][3].method = "dnsrecord_mod"
  /\ \A p, q \in Procs : ipa_dnsrecord[p] = ipa_dnsrecord[q]
  /\ \E p \in Procs : ~Holds(srv, params[p])

(* C16: nothing locks the record between find and act. A mutating call is  *)
(* sent on a stale observation (the server no longer holds what the first  *)
(* find returned; both invocations add a record both saw Absent; one       *)
(* modify overwrites the other's) only by an invocation that ran while     *)
(* the other one ran; invocations run one after the other never do so.     *)
C16_StaleOnlyWhenConcurrent ==
  /\ \A p \in Procs : hist[p].stale => hist[p].overlap
  /\ BothAddOnAbsent => \A p \in Procs : hist[p].overlap
  /\ LostUpdate => \A p \in Procs : hist[p].overlap

C16_Witness ==
  /\ BothAddOnAbsent
  /\ \E p \in Procs : hist[p].stale
  /\ \A p \in Procs : Succeeded(p) /\ outcome[p].changed

(* Violated under SpecConc: the lost update is reached as well. *)
LostUpdateUnreached == ~LostUpdate

====
